---- MODULE Spec2Model ----
(***************************************************************************)
(* Forest-fire cellular automaton, distributed over a chain of worker      *)
(* processes that exchange ghost rows over TCP (src/distribuido).          *)
(*                                                                         *)
(* Rows and columns are 1-based here (Python: 0-based); ranks, ports and   *)
(* global row indices i0, i1 keep the program's 0-based values.            *)
(***************************************************************************)
EXTENDS Integers, Sequences, FiniteSets, TLC

(***************************************************************************)
(* Bounds of the model.                                                    *)
(***************************************************************************)
MaxWorkers == 3          \* num_procs ranges over 1..MaxWorkers
MaxNx      == 4          \* Nx ranges up to MaxNx
MaxSteps   == 2          \* nsteps ranges over 1..MaxSteps
MaxSeed    == 1          \* seeds 0..MaxSeed of the random source
MaxPlanNx  == 12         \* Nx of the partition planner alone
MaxKills   == 1          \* worker processes killed in one run
LabNy      == 3          \* widest row given to the update rule alone
LabRows    == 3          \* most rows of a grid given to the rule alone
LabCells   == 6          \* most cells of such a grid
MaxThreads == 3          \* nthreads ranges over 1..MaxThreads
ChainNx    == 3          \* most rows of a grid split over a chain

(***************************************************************************)
(* Program constants.                                                      *)
(***************************************************************************)
EMPTY == 0
TREE  == 1
BURN  == 2
Backlog == 2             \* server.listen(2)
BasePort == 9000         \* base_port (the launcher's example value)
NyVal == 2               \* Ny, the width of every row
Resolution == 2          \* np.random.random() takes the values k/Resolution

None == <<>>             \* Python's None for an absent ghost row / socket

Cells == {EMPTY, TREE, BURN}

Min(a, b) == IF a < b THEN a ELSE b
Max(a, b) == IF a < b THEN b ELSE a

(***************************************************************************)
(* Python's floor division a // b (b # 0).                                 *)
(***************************************************************************)
PyFloorDiv(a, b) == IF b > 0 THEN a \div b ELSE (-a) \div (-b)

(***************************************************************************)
(* int8 <-> bytes: row.tobytes() and np.frombuffer(data, dtype=np.int8).   *)
(***************************************************************************)
ToByte(v) == v % 256
\* a mutation: the byte is read as a count below zero
FromByteNegative(b) == b - 256

FromByte(b) == IF b < 128 THEN b ELSE b - 256

(***************************************************************************)
(* Partition planner: worker.py lines 48-52.                               *)
(***************************************************************************)
RowsPer(Nx, num_procs) == PyFloorDiv(Nx, num_procs)

RangeLo(rank, num_procs, Nx) == rank * RowsPer(Nx, num_procs)

\* a mutation: the last rank is given rows_per rows like the others
RangeHiLastTakesAll(rank, num_procs, Nx) ==
    (rank + 1) * RowsPer(Nx, num_procs)

RangeHi(rank, num_procs, Nx) ==
    IF rank = num_procs - 1 THEN Nx ELSE (rank + 1) * RowsPer(Nx, num_procs)

(***************************************************************************)
(* The random source.  np.random.random() is an input of the program; the  *)
(* draw of (seed, step, global row, column) is a value in 0..Resolution-1, *)
(* and "random() < q" is Draw < q for a level q.  Step 0 is the draw of    *)
(* the initial grid.                                                       *)
(***************************************************************************)
Draw(seed, t, i, j) ==
    (seed * t + ((i * i + i) \div 2) + t * j) % Resolution

(***************************************************************************)
(* update_block: forest_fire_simulacao.py lines 14-95.                     *)
(* block: sequence of rows; top_ghost, bottom_ghost: a row or None;        *)
(* u[i][j]: the draw of local cell (i, j).                                 *)
(***************************************************************************)
EmptyRow(Ny) == [j \in 1..Ny |-> EMPTY]

\* a mutation: the upper ghost row is not used
PadTopIgnored(top_ghost, Ny) == EmptyRow(Ny)

PadTop(top_ghost, Ny) == IF top_ghost = None THEN EmptyRow(Ny) ELSE top_ghost

PadBottom(bottom_ghost, Ny) ==
    IF bottom_ghost = None THEN EmptyRow(Ny) ELSE bottom_ghost

Padded(block, top_ghost, bottom_ghost, Ny) ==
    <<PadTop(top_ghost, Ny)>> \o block \o <<PadBottom(bottom_ghost, Ny)>>

\* a mutation: a column index outside the row wraps around
BurningNeighbourWraps(padded, i, j, Ny) ==
    \E di \in {-1, 0, 1}, dj \in {-1, 0, 1} :
        /\ ~(di = 0 /\ dj = 0)
        /\ padded[i + 1 + di][((j + dj - 1) % Ny) + 1] = BURN

\* padded row of local row i is i + 1 (the ghost row shifts by one)
BurningNeighbour(padded, i, j, Ny) ==
    \E di \in {-1, 0, 1}, dj \in {-1, 0, 1} :
        /\ ~(di = 0 /\ dj = 0)
        /\ j + dj >= 1 /\ j + dj <= Ny
        /\ padded[i + 1 + di][j + dj] = BURN

\* a mutation: a tree can grow at once where a cell has burnt
NewCellBurnRegrows(padded, i, j, Ny, p, f, draw) ==
    LET s == padded[i + 1][j] IN
    IF s = BURN THEN (IF draw < p THEN TREE ELSE EMPTY)
    ELSE IF s = TREE
         THEN IF BurningNeighbour(padded, i, j, Ny) THEN BURN
              ELSE IF draw < f THEN BURN
              ELSE TREE
         ELSE IF draw < p THEN TREE ELSE EMPTY

\* a mutation: the ignition test is "random() <= f"
NewCellIgnitesAtZero(padded, i, j, Ny, p, f, draw) ==
    LET s == padded[i + 1][j] IN
    IF s = BURN THEN EMPTY
    ELSE IF s = TREE
         THEN IF BurningNeighbour(padded, i, j, Ny) THEN BURN
              ELSE IF draw <= f THEN BURN
              ELSE TREE
         ELSE IF draw < p THEN TREE ELSE EMPTY

\* a mutation: lightning strikes Empty cells too
NewCellEmptyIgnites(padded, i, j, Ny, p, f, draw) ==
    LET s == padded[i + 1][j] IN
    IF s = BURN THEN EMPTY
    ELSE IF s = TREE
         THEN IF BurningNeighbour(padded, i, j, Ny) THEN BURN
              ELSE IF draw < f THEN BURN
              ELSE TREE
         ELSE IF draw < f THEN BURN
         ELSE IF draw < p THEN TREE ELSE EMPTY

NewCell(padded, i, j, Ny, p, f, draw) ==
    LET s == padded[i + 1][j] IN
    IF s = BURN THEN EMPTY
    ELSE IF s = TREE
         THEN IF BurningNeighbour(padded, i, j, Ny) THEN BURN
              ELSE IF draw < f THEN BURN
              ELSE TREE
         ELSE IF draw < p THEN TREE ELSE EMPTY

update_block(block, top_ghost, bottom_ghost, p, f, u) ==
    LET rows == Len(block)
        Ny == IF rows > 0 THEN Len(block[1]) ELSE 0
        padded == Padded(block, top_ghost, bottom_ghost, Ny)
    IN [i \in 1..rows |->
          [j \in 1..Ny |-> NewCell(padded, i, j, Ny, p, f, u[i][j])]]


(***************************************************************************)
(* State.                                                                  *)
(*   cfg          the launcher's parameters, the same for every worker     *)
(*   wk[r]        the main thread of worker r: its position pc and locals  *)
(*   thr[r]       the accept thread of worker r                            *)
(*   accept_conn  accept_conn['down'] of worker r                          *)
(*   server[r]    the listening socket of worker r                         *)
(*   conn[c]      the TCP connection made by worker c's connect()          *)
(*   plan         the partition planner run on its own (SpecPlan)          *)
(*   rule         the update rule applied to one input (SpecRule)          *)
(*   par          the threaded variant, src/paralelo (SpecPar)             *)
(***************************************************************************)
VARIABLES cfg, wk, thr, accept_conn, server, conn, plan, rule, par

vars == <<cfg, wk, thr, accept_conn, server, conn, plan, rule, par>>

\* the ranks of the model
Ranks == 0..(MaxWorkers - 1)

\* the ranks launched: range(num_procs), or a single worker started by hand
Procs == 0..(Max(cfg.N, 1) - 1)

NoSock == [id |-> -1, side |-> "none"]
NoConn == [srv |-> -1, c2s |-> <<>>, s2c |-> <<>>,
           cEnd |-> "none", sEnd |-> "none", rst |-> FALSE]

\* line 61: my_port = base_port + rank
my_port(rank) == BasePort + rank

\* a mutation: the worker connects to the port of its own rank
up_port_self(rank) == BasePort + rank

\* line 82: up_port = base_port + (rank - 1)
up_port(rank) == BasePort + (rank - 1)

(***************************************************************************)
(* Sockets: the two ends of conn[id]; side "c" is the connecting end,      *)
(* side "s" the accepted end.                                              *)
(***************************************************************************)
Inbound(cn, s) == IF s.side = "c" THEN cn[s.id].s2c ELSE cn[s.id].c2s
Outbound(cn, s) == IF s.side = "c" THEN cn[s.id].c2s ELSE cn[s.id].s2c
PeerEnd(cn, s) == IF s.side = "c" THEN cn[s.id].sEnd ELSE cn[s.id].cEnd

Push(cn, s, bytes) ==
    IF s.side = "c" THEN [cn EXCEPT ![s.id].c2s = @ \o bytes]
                    ELSE [cn EXCEPT ![s.id].s2c = @ \o bytes]

Pop(cn, s, k) ==
    IF s.side = "c" THEN [cn EXCEPT ![s.id].s2c = SubSeq(@, k + 1, Len(@))]
                    ELSE [cn EXCEPT ![s.id].c2s = SubSeq(@, k + 1, Len(@))]

\* close(): unread inbound data makes the kernel reset the connection
CloseSock(cn, s) ==
    IF s = NoSock THEN cn
    ELSE IF s.side = "c"
         THEN [cn EXCEPT ![s.id].cEnd = "closed",
                         ![s.id].rst = @ \/ cn[s.id].s2c # <<>>,
                         ![s.id].s2c = <<>>]
         ELSE [cn EXCEPT ![s.id].sEnd = "closed",
                         ![s.id].rst = @ \/ cn[s.id].c2s # <<>>,
                         ![s.id].c2s = <<>>]

\* server.close(): connections still in the listen queue are reset
CloseQueued(cn, queue) ==
    [c \in DOMAIN cn |->
        IF \E k \in 1..Len(queue) : queue[k] = c
        THEN [cn[c] EXCEPT !.sEnd = "closed",
                           !.rst = @ \/ cn[c].c2s # <<>>,
                           !.c2s = <<>>]
        ELSE cn[c]]

\* process exit: the kernel closes every socket the process holds
CloseAllOf(cn, r) ==
    [c \in DOMAIN cn |->
        LET a == IF c = r /\ cn[c].cEnd = "open"
                 THEN [cn[c] EXCEPT !.cEnd = "closed",
                                    !.rst = @ \/ cn[c].s2c # <<>>,
                                    !.s2c = <<>>]
                 ELSE cn[c]
        IN IF a.srv = r /\ a.sEnd = "open"
           THEN [a EXCEPT !.sEnd = "closed",
                          !.rst = @ \/ a.c2s # <<>>,
                          !.c2s = <<>>]
           ELSE a]

(***************************************************************************)
(* Initial block of a worker: worker.py line 55.                           *)
(***************************************************************************)
InitBlock(seed, d0, i0, my_rows) ==
    [i \in 1..my_rows |->
        [j \in 1..NyVal |->
            IF Draw(seed, 0, i0 + i - 1, j) < d0 THEN 1 ELSE 0]]

\* the draws of the block's cells in loop iteration step (0-based)
BlockDraws(seed, step, i0, my_rows) ==
    [i \in 1..my_rows |->
        [j \in 1..NyVal |-> Draw(seed, step + 1, i0 + i - 1, j)]]

\* row.tobytes(), each byte tagged with the number of updates behind it
RowBytes(row, k) == [j \in 1..Len(row) |-> [b |-> ToByte(row[j]), k |-> k]]

\* np.frombuffer(data, dtype=np.int8)
RowOfBytes(data) == [j \in 1..Len(data) |-> FromByte(data[j].b)]
TagsOfBytes(data) == [j \in 1..Len(data) |-> data[j].k]

(***************************************************************************)
(* Configurations.                                                         *)
(***************************************************************************)
Config(N, Nx, nsteps, p, f, d0, seed, cap) ==
    [N |-> N, Nx |-> Nx, nsteps |-> nsteps, p |-> p, f |-> f, d0 |-> d0,
     seed |-> seed, cap |-> cap]

Probs == {0, 1}            \* the levels p and f range over
Density == {1}             \* the levels d0 ranges over

\* bytes a channel direction buffers: one row, or the two rows that can
\* be in flight at once
Caps == {NyVal, 2 * NyVal}

ConfigsOf(Ns, Nxs) ==
    {Config(N, Nx, ns, p, f, d0, seed, cap) :
        N \in Ns, Nx \in Nxs, ns \in 1..MaxSteps,
        p \in Probs, f \in Probs, d0 \in Density, seed \in 0..MaxSeed,
        cap \in Caps}

\* Nx >= num_procs > 0
ValidConfigs == {c \in ConfigsOf(1..MaxWorkers, 1..MaxNx) : c.Nx >= c.N}

Worker0 ==
    [pc |-> "start", i0 |-> 0, i1 |-> 0, grid |-> <<>>, step |-> 0,
     up_sock |-> NoSock, down_sock |-> NoSock,
     top_row |-> <<>>, bottom_row |-> <<>>,
     topGhost |-> None, bottomGhost |-> None,
     topTags |-> <<>>, bottomTags |-> <<>>,
     out |-> <<>>, data |-> <<>>, err |-> "", lastErr |-> "",
     hist |-> <<>>]

Server0 == [state |-> "none", port |-> 0, queue |-> <<>>]

Plan0 == [Nx |-> 0, N |-> 0, ranges |-> <<>>]

\* nothing applied, no thread started
Rule0 == [kind |-> "none"]
Par0 == [kind |-> "none"]

Idle == rule = Rule0 /\ par = Par0

InitWorkers(c) ==
    /\ cfg = c
    /\ wk = [r \in 0..(Max(c.N, 1) - 1) |-> Worker0]
    /\ thr = [r \in 0..(Max(c.N, 1) - 1) |-> "none"]
    /\ accept_conn = [r \in 0..(Max(c.N, 1) - 1) |-> NoSock]
    /\ server = [r \in 0..(Max(c.N, 1) - 1) |-> Server0]
    /\ conn = [r \in 0..(Max(c.N, 1) - 1) |-> NoConn]

\* every configuration a launcher can pass, the invalid ones included
AnyConfigs == ConfigsOf(-1..MaxWorkers, 0..MaxNx)

Init == plan = Plan0 /\ Idle /\ \E c \in AnyConfigs : InitWorkers(c)


(***************************************************************************)
(* A worker's process ends on an uncaught exception: the kernel closes its *)
(* sockets.                                                                *)
(***************************************************************************)
Raise(r, e) ==
    /\ wk' = [wk EXCEPT ![r] =
                 [Worker0 EXCEPT !.pc = "failed", !.err = e,
                                 !.i0 = wk[r].i0, !.i1 = wk[r].i1,
                                 !.grid = wk[r].grid, !.hist = wk[r].hist,
                                 !.step = wk[r].step, !.data = wk[r].data,
                                 !.lastErr = wk[r].lastErr]]
    /\ conn' = CloseAllOf(conn, r)
    /\ server' = [server EXCEPT ![r].state =
                      IF @ = "listening" THEN "closed" ELSE @,
                                ![r].queue = <<>>]
    /\ thr' = [thr EXCEPT ![r] = IF @ = "accepting" THEN "none" ELSE @]
    /\ UNCHANGED <<cfg, accept_conn, plan, rule, par>>

(***************************************************************************)
(* worker_main lines 48-56: partition and initial block.                   *)
(***************************************************************************)
Initialize(r) ==
    /\ r \in Procs
    /\ wk[r].pc = "start"
    /\ IF cfg.N = 0
       THEN Raise(r, "ZeroDivisionError")
       ELSE LET i0 == RangeLo(r, cfg.N, cfg.Nx)
                i1 == RangeHi(r, cfg.N, cfg.Nx)
                my_rows == i1 - i0
            IN IF my_rows < 0
               THEN Raise(r, "ValueError")
               ELSE /\ wk' = [wk EXCEPT
                        ![r].pc = "listen", ![r].i0 = i0, ![r].i1 = i1,
                        ![r].grid = InitBlock(cfg.seed, cfg.d0, i0, my_rows),
                        ![r].hist = <<InitBlock(cfg.seed, cfg.d0, i0, my_rows)>>]
                    /\ UNCHANGED <<cfg, thr, accept_conn, server, conn, plan, rule, par>>

(***************************************************************************)
(* worker_main lines 58-78: listen on base_port + rank, start the accept   *)
(* thread when there is a lower neighbour.                                 *)
(***************************************************************************)
Listen(r) ==
    /\ r \in Procs
    /\ wk[r].pc = "listen"
    /\ server' = [server EXCEPT ![r] =
                     [state |-> "listening", port |-> my_port(r), queue |-> <<>>]]
    /\ thr' = [thr EXCEPT ![r] = IF r < cfg.N - 1 THEN "accepting" ELSE "none"]
    /\ wk' = [wk EXCEPT ![r].pc = IF r > 0 THEN "connect" ELSE "wait_down"]
    /\ UNCHANGED <<cfg, accept_conn, conn, plan, rule, par>>

(***************************************************************************)
(* accept_once, lines 70-72, in the accept thread.                         *)
(***************************************************************************)
AcceptOnce(r) ==
    /\ r \in Procs
    /\ thr[r] = "accepting"
    /\ server[r].state = "listening"
    /\ server[r].queue # <<>>
    /\ accept_conn' = [accept_conn EXCEPT
                          ![r] = [id |-> Head(server[r].queue), side |-> "s"]]
    /\ server' = [server EXCEPT ![r].queue = Tail(@)]
    /\ thr' = [thr EXCEPT ![r] = "done"]
    /\ UNCHANGED <<cfg, wk, conn, plan, rule, par>>

(***************************************************************************)
(* lines 81-90: s.connect to the upper neighbour's port succeeds when a    *)
(* socket listens there; the kernel queues the connection for accept().    *)
(***************************************************************************)
ListenerAt(port) ==
    {s \in Procs : server[s].state = "listening" /\ server[s].port = port}

ConnectOk(r) ==
    /\ r \in Procs
    /\ wk[r].pc = "connect"
    /\ \E s \in ListenerAt(up_port(r)) :
        /\ Len(server[s].queue) < Backlog
        /\ conn' = [conn EXCEPT ![r] =
                       [srv |-> s, c2s |-> <<>>, s2c |-> <<>>,
                        cEnd |-> "open", sEnd |-> "open", rst |-> FALSE]]
        /\ server' = [server EXCEPT ![s].queue = Append(@, r)]
    /\ wk' = [wk EXCEPT ![r].up_sock = [id |-> r, side |-> "c"],
                        ![r].pc = "wait_down"]
    /\ UNCHANGED <<cfg, thr, accept_conn, plan, rule, par>>

(***************************************************************************)
(* lines 88, 91-92: connection refused (nobody listens yet): sleep, retry. *)
(* The retry calls connect on the same socket object, which Linux and      *)
(* Windows allow after a refused attempt.                                  *)
(***************************************************************************)
ConnectRefused(r) ==
    /\ r \in Procs
    /\ wk[r].pc = "connect"
    /\ ListenerAt(up_port(r)) = {}
    /\ wk' = [wk EXCEPT ![r].pc = "sleep", ![r].lastErr = "refused"]
    /\ UNCHANGED <<cfg, thr, accept_conn, server, conn, plan, rule, par>>

\* a mutation: the loop is left after the first failed attempt
RetryGivesUp(r) ==
    /\ r \in Procs
    /\ wk[r].pc = "sleep"
    /\ wk' = [wk EXCEPT ![r].pc = "wait_down"]
    /\ UNCHANGED <<cfg, thr, accept_conn, server, conn, plan, rule, par>>

\* line 92 -> line 86: time.sleep(0.05) ends, the loop tries again
Retry(r) ==
    /\ r \in Procs
    /\ wk[r].pc = "sleep"
    /\ wk' = [wk EXCEPT ![r].pc = "connect"]
    /\ UNCHANGED <<cfg, thr, accept_conn, server, conn, plan, rule, par>>

(***************************************************************************)
(* lines 94-98: wait for the accept thread's hand-over.                    *)
(***************************************************************************)
\* a mutation: the main thread does not wait for the accept thread
WaitDownNoWait(r) ==
    /\ r \in Procs
    /\ wk[r].pc = "wait_down"
    /\ wk' = [wk EXCEPT ![r].down_sock = accept_conn[r], ![r].pc = "loop"]
    /\ UNCHANGED <<cfg, thr, accept_conn, server, conn, plan, rule, par>>

WaitDown(r) ==
    /\ r \in Procs
    /\ wk[r].pc = "wait_down"
    /\ IF r < cfg.N - 1
       THEN /\ accept_conn[r] # NoSock
            /\ wk' = [wk EXCEPT ![r].down_sock = accept_conn[r],
                                ![r].pc = "loop"]
       ELSE wk' = [wk EXCEPT ![r].pc = "loop"]
    /\ UNCHANGED <<cfg, thr, accept_conn, server, conn, plan, rule, par>>


(***************************************************************************)
(* The exchange of one loop iteration, lines 117-127, as the positions     *)
(* that follow one another: what comes after the upper exchange, and after *)
(* the lower one.                                                          *)
(***************************************************************************)
\* a mutation: the lower exchange receives without sending first
EnterDownNoSend(w) ==
    IF w.down_sock # NoSock
    THEN [w EXCEPT !.pc = "down_recv", !.data = <<>>]
    ELSE [w EXCEPT !.pc = "update", !.bottomGhost = None, !.bottomTags = <<>>]

\* line 123-127 reached with worker record w: lower exchange, or none
EnterDown(w) ==
    IF w.down_sock # NoSock
    THEN [w EXCEPT !.pc = "down_send", !.out = RowBytes(w.bottom_row, w.step)]
    ELSE [w EXCEPT !.pc = "update", !.bottomGhost = None, !.bottomTags = <<>>]

\* a mutation: the upper exchange is left out
EnterUpSkipped(w) ==
    EnterDown([w EXCEPT !.topGhost = None, !.topTags = <<>>])

\* line 117-121 reached with worker record w: upper exchange, or none
EnterUp(w) ==
    IF w.up_sock # NoSock
    THEN [w EXCEPT !.pc = "up_send", !.out = RowBytes(w.top_row, w.step)]
    ELSE EnterDown([w EXCEPT !.topGhost = None, !.topTags = <<>>])

(***************************************************************************)
(* line 107-110: next iteration, capture of the two boundary rows; or the  *)
(* end of the loop.                                                        *)
(***************************************************************************)
\* a mutation: the rows captured once, before the loop
TopRowStale(w) == w.hist[1][1]

\* line 109: top_row = grid[0, :]
TopRowOf(w) == w.grid[1]

\* line 110: bottom_row = grid[-1, :]
BottomRowOf(w) == w.grid[Len(w.grid)]

\* a mutation: rank 0 runs one step less than the others
LoopTopShortRun(r) ==
    /\ r \in Procs
    /\ wk[r].pc = "loop"
    /\ IF wk[r].step < cfg.nsteps - (IF r = 0 THEN 1 ELSE 0)
       THEN IF Len(wk[r].grid) = 0
            THEN Raise(r, "IndexError")
            ELSE /\ wk' = [wk EXCEPT ![r] =
                       EnterUp([wk[r] EXCEPT
                                  !.top_row = TopRowOf(wk[r]),
                                  !.bottom_row = BottomRowOf(wk[r])])]
                 /\ UNCHANGED <<cfg, thr, accept_conn, server, conn, plan, rule, par>>
       ELSE /\ wk' = [wk EXCEPT ![r].pc = "close"]
            /\ UNCHANGED <<cfg, thr, accept_conn, server, conn, plan, rule, par>>

LoopTop(r) ==
    /\ r \in Procs
    /\ wk[r].pc = "loop"
    /\ IF wk[r].step < cfg.nsteps
       THEN IF Len(wk[r].grid) = 0
            THEN Raise(r, "IndexError")
            ELSE /\ wk' = [wk EXCEPT ![r] =
                       EnterUp([wk[r] EXCEPT
                                  !.top_row = TopRowOf(wk[r]),
                                  !.bottom_row = BottomRowOf(wk[r])])]
                 /\ UNCHANGED <<cfg, thr, accept_conn, server, conn, plan, rule, par>>
       ELSE /\ wk' = [wk EXCEPT ![r].pc = "close"]
            /\ UNCHANGED <<cfg, thr, accept_conn, server, conn, plan, rule, par>>

CurSock(w) ==
    IF w.pc \in {"up_send", "up_recv"} THEN w.up_sock ELSE w.down_sock

(***************************************************************************)
(* send_row, lines 25-27: sendall blocks while the peer's buffer is full   *)
(* and hands the bytes over in pieces.                                     *)
(***************************************************************************)
\* a mutation: the channel takes any number of bytes at once
SendChunkUnbounded(r) ==
    /\ r \in Procs
    /\ wk[r].pc \in {"up_send", "down_send"}
    /\ LET s == CurSock(wk[r])
       IN /\ PeerEnd(conn, s) = "open"
          /\ ~conn[s.id].rst
          /\ conn' = Push(conn, s, wk[r].out)
          /\ wk' = [wk EXCEPT
                ![r].out = <<>>,
                ![r].data = <<>>,
                ![r].pc = IF @ = "up_send" THEN "up_recv" ELSE "down_recv"]
    /\ UNCHANGED <<cfg, thr, accept_conn, server, plan, rule, par>>

SendChunk(r) ==
    /\ r \in Procs
    /\ wk[r].pc \in {"up_send", "down_send"}
    /\ LET s == CurSock(wk[r])
           free == cfg.cap - Len(Outbound(conn, s))
       IN /\ PeerEnd(conn, s) = "open"
          /\ ~conn[s.id].rst
          /\ \E k \in 1..Min(Len(wk[r].out), free) :
               /\ conn' = Push(conn, s, SubSeq(wk[r].out, 1, k))
               /\ wk' = [wk EXCEPT
                    ![r].out = SubSeq(@, k + 1, Len(@)),
                    ![r].data = <<>>,
                    ![r].pc = IF k < Len(wk[r].out) THEN @
                              ELSE IF @ = "up_send" THEN "up_recv"
                              ELSE "down_recv"]
    /\ UNCHANGED <<cfg, thr, accept_conn, server, plan, rule, par>>

\* sendall on a connection whose peer is gone: the bytes are dropped, and
\* the call returns or raises (BrokenPipeError, ConnectionResetError)
SendToClosed(r) ==
    /\ r \in Procs
    /\ wk[r].pc \in {"up_send", "down_send"}
    /\ LET s == CurSock(wk[r])
       IN PeerEnd(conn, s) = "closed" \/ conn[s.id].rst
    /\ \/ Raise(r, "BrokenPipeError")
       \/ /\ wk' = [wk EXCEPT
                ![r].out = <<>>, ![r].data = <<>>,
                ![r].pc = IF @ = "up_send" THEN "up_recv" ELSE "down_recv"]
          /\ UNCHANGED <<cfg, thr, accept_conn, server, conn, plan, rule, par>>

(***************************************************************************)
(* recv_exact / recv_row, lines 15-23 and 29-32: one sock.recv of the      *)
(* loop, which returns between 1 and n - len(data) bytes.                  *)
(***************************************************************************)
RecvExactDone(data, n) == Len(data) >= n

\* a mutation: the receive does not wait for the neighbour's row; the
\* worker goes on with a copy of its own boundary row
RecvChunkNoWait(r) ==
    /\ r \in Procs
    /\ wk[r].pc \in {"up_recv", "down_recv"}
    /\ wk' = [wk EXCEPT ![r] =
          IF wk[r].pc = "up_recv"
          THEN EnterDown([wk[r] EXCEPT
                  !.data = <<>>,
                  !.topGhost = wk[r].top_row,
                  !.topTags = [j \in 1..NyVal |-> wk[r].step]])
          ELSE [wk[r] EXCEPT
                  !.data = <<>>,
                  !.bottomGhost = wk[r].bottom_row,
                  !.bottomTags = [j \in 1..NyVal |-> wk[r].step],
                  !.pc = "update"]]
    /\ UNCHANGED <<cfg, thr, accept_conn, server, conn, plan, rule, par>>

RecvChunk(r) ==
    /\ r \in Procs
    /\ wk[r].pc \in {"up_recv", "down_recv"}
    /\ LET s == CurSock(wk[r])
           n == NyVal
       IN \E k \in 1..Min(Len(Inbound(conn, s)), n - Len(wk[r].data)) :
            LET data == wk[r].data \o SubSeq(Inbound(conn, s), 1, k)
            IN /\ conn' = Pop(conn, s, k)
               /\ wk' = [wk EXCEPT ![r] =
                    IF ~RecvExactDone(data, n)
                    THEN [@ EXCEPT !.data = data]
                    ELSE IF @.pc = "up_recv"
                         THEN EnterDown([@ EXCEPT
                                 !.data = <<>>,
                                 !.topGhost = RowOfBytes(data),
                                 !.topTags = TagsOfBytes(data)])
                         ELSE [@ EXCEPT
                                 !.data = <<>>,
                                 !.bottomGhost = RowOfBytes(data),
                                 !.bottomTags = TagsOfBytes(data),
                                 !.pc = "update"]]
    /\ UNCHANGED <<cfg, thr, accept_conn, server, plan, rule, par>>

\* a mutation: at end of stream the loop is left and the short data returned
RecvClosedBreaks(r) ==
    /\ r \in Procs
    /\ wk[r].pc \in {"up_recv", "down_recv"}
    /\ LET s == CurSock(wk[r])
       IN /\ Inbound(conn, s) = <<>>
          /\ PeerEnd(conn, s) = "closed"
    /\ wk' = [wk EXCEPT ![r] =
          IF @.pc = "up_recv"
          THEN EnterDown([@ EXCEPT !.topGhost = RowOfBytes(wk[r].data),
                                   !.topTags = TagsOfBytes(wk[r].data),
                                   !.data = <<>>])
          ELSE [@ EXCEPT !.bottomGhost = RowOfBytes(wk[r].data),
                         !.bottomTags = TagsOfBytes(wk[r].data),
                         !.data = <<>>, !.pc = "update"]]
    /\ UNCHANGED <<cfg, thr, accept_conn, server, conn, plan, rule, par>>

\* lines 19-21: recv returns b'' at end of stream: ConnectionError
RecvClosed(r) ==
    /\ r \in Procs
    /\ wk[r].pc \in {"up_recv", "down_recv"}
    /\ LET s == CurSock(wk[r])
       IN /\ Inbound(conn, s) = <<>>
          /\ PeerEnd(conn, s) = "closed"
    /\ Raise(r, "ConnectionError")

\* line 19: recv on a connection the peer has reset raises
RecvReset(r) ==
    /\ r \in Procs
    /\ wk[r].pc \in {"up_recv", "down_recv"}
    /\ conn[CurSock(wk[r]).id].rst
    /\ Raise(r, "ConnectionResetError")

(***************************************************************************)
(* lines 136-141: update_block and the copy into grid.                     *)
(***************************************************************************)
Update(r) ==
    /\ r \in Procs
    /\ wk[r].pc = "update"
    /\ LET new_grid == update_block(wk[r].grid, wk[r].topGhost,
                           wk[r].bottomGhost, cfg.p, cfg.f,
                           BlockDraws(cfg.seed, wk[r].step, wk[r].i0,
                                      Len(wk[r].grid)))
       IN wk' = [wk EXCEPT ![r].grid = new_grid,
                           ![r].hist = Append(@, new_grid),
                           ![r].step = @ + 1,
                           ![r].pc = "loop"]
    /\ UNCHANGED <<cfg, thr, accept_conn, server, conn, plan, rule, par>>

(***************************************************************************)
(* lines 143-146: close both channels and the listening socket.            *)
(***************************************************************************)
Close(r) ==
    /\ r \in Procs
    /\ wk[r].pc = "close"
    /\ conn' = CloseQueued(CloseSock(CloseSock(conn, wk[r].up_sock),
                                     wk[r].down_sock),
                           server[r].queue)
    /\ server' = [server EXCEPT ![r].state = "closed", ![r].queue = <<>>]
    /\ wk' = [wk EXCEPT ![r].pc = "done"]
    /\ UNCHANGED <<cfg, thr, accept_conn, plan, rule, par>>

(***************************************************************************)
(* The environment: a worker process is killed; a connect fails for a      *)
(* reason other than "connection refused" (lines 91-92 catch Exception).   *)
(***************************************************************************)
Kill(r) ==
    /\ r \in Procs
    /\ Cardinality({q \in Procs : wk[q].err = "killed"}) < MaxKills
    /\ wk[r].pc \notin {"start", "done", "failed"}
    /\ Raise(r, "killed")

ConnectError(r) ==
    /\ r \in Procs
    /\ wk[r].pc = "connect"
    /\ wk' = [wk EXCEPT ![r].pc = "sleep", ![r].lastErr = "other"]
    /\ UNCHANGED <<cfg, thr, accept_conn, server, conn, plan, rule, par>>

(***************************************************************************)
(* The partition planner on its own: ranks 0 .. N-1 in turn.               *)
(***************************************************************************)
PlanRank ==
    /\ Len(plan.ranges) < plan.N
    /\ LET rank == Len(plan.ranges)
       IN plan' = [plan EXCEPT !.ranges =
                     Append(@, <<RangeLo(rank, plan.N, plan.Nx),
                                 RangeHi(rank, plan.N, plan.Nx)>>)]
    /\ UNCHANGED <<cfg, wk, thr, accept_conn, server, conn, rule, par>>

InitPlan ==
    /\ InitWorkers(Config(1, 1, 1, 0, 0, 1, 0, NyVal))
    /\ Idle
    /\ plan \in {[Nx |-> a, N |-> b, ranges |-> <<>>] :
                    a \in 1..MaxPlanNx, b \in 1..MaxPlanNx}
    /\ plan.Nx >= plan.N

(***************************************************************************)
(* The sequential variant's step: forest_fire_sequencial.py lines 8-60.    *)
(* ui[i][j] and ug[i][j] are the ignition and growth draws of cell (i, j). *)
(***************************************************************************)
\* lines 35-44: the eight shifted copies of g that are or-ed into mask
Shifts == {d \in {-1, 0, 1} \X {-1, 0, 1} : d # <<0, 0>>}

\* a mutation: only the four adjacent cells are looked at
NeighbourMaskAdjacent(g, Nx, Ny) ==
    [i \in 1..Nx |-> [j \in 1..Ny |->
        \E d \in {<<-1, 0>>, <<1, 0>>, <<0, -1>>, <<0, 1>>} :
            /\ i + d[1] >= 1 /\ i + d[1] <= Nx
            /\ j + d[2] >= 1 /\ j + d[2] <= Ny
            /\ g[i + d[1]][j + d[2]]]]

\* lines 31-44: mask[i, j] is set when a slice shifted by d has g set there
NeighbourMask(g, Nx, Ny) ==
    [i \in 1..Nx |-> [j \in 1..Ny |->
        \E d \in Shifts :
            /\ i + d[1] >= 1 /\ i + d[1] <= Nx
            /\ j + d[2] >= 1 /\ j + d[2] <= Ny
            /\ g[i + d[1]][j + d[2]]]]

\* new[m] = v for a boolean array m
AssignWhere(new, m, v) ==
    [i \in DOMAIN new |-> [j \in DOMAIN new[i] |->
        IF m[i][j] THEN v ELSE new[i][j]]]

step(grid, p, f, ui, ug) ==
    LET Nx == Len(grid)
        Ny == IF Nx > 0 THEN Len(grid[1]) ELSE 0
        g == [i \in 1..Nx |-> [j \in 1..Ny |-> grid[i][j] = BURN]]
        mask == NeighbourMask(g, Nx, Ny)
        tree_mask == [i \in 1..Nx |-> [j \in 1..Ny |-> grid[i][j] = TREE]]
        catch == [i \in 1..Nx |-> [j \in 1..Ny |->
                     tree_mask[i][j] /\ mask[i][j]]]
        ignite == [i \in 1..Nx |-> [j \in 1..Ny |->
                     ui[i][j] < f /\ tree_mask[i][j]]]
        grow == [i \in 1..Nx |-> [j \in 1..Ny |->
                     ug[i][j] < p /\ grid[i][j] = EMPTY]]
        new1 == AssignWhere(grid, g, EMPTY)
        new2 == AssignWhere(new1, catch, BURN)
        new3 == AssignWhere(new2, ignite, BURN)
    IN AssignWhere(new3, grow, TREE)

(***************************************************************************)
(* The update rule on its own: one call of update_block, and of the        *)
(* sequential step, on a given block, ghost rows, levels and draws.        *)
(***************************************************************************)
\* p and f as levels k/Resolution: 0 is never, Resolution is always
Levels == 0..Resolution

RowsOf(Ny) == [1..Ny -> Cells]
GridsOf(rows, Ny) == [1..rows -> RowsOf(Ny)]

\* the draws of one step over a grid of the given shape
DrawsOf(seed, rows, Ny) ==
    [i \in 1..rows |-> [j \in 1..Ny |-> Draw(seed, 1, i - 1, j)]]

RuleInput(block, top, bottom, p, f, seed) ==
    [kind |-> "block", block |-> block,
     top_ghost |-> top, bottom_ghost |-> bottom, p |-> p, f |-> f,
     u |-> DrawsOf(seed, Len(block), Len(block[1])),
     new |-> None, seq |-> None]

\* whole grids: up to LabRows rows of up to LabNy cells
GridShapes ==
    {sh \in (1..LabRows) \X (1..LabNy) : sh[1] * sh[2] <= LabCells}

\* the block of 1 x 5 Empty cells, p = 0, f = 1
EmptyScene == RuleInput(<<[j \in 1..5 |-> EMPTY]>>, None, None,
                        0, Resolution, 0)

ApplyUpdateBlock ==
    /\ rule.kind = "block"
    /\ rule.new = None
    /\ rule' = [rule EXCEPT !.new =
                   update_block(rule.block, rule.top_ghost, rule.bottom_ghost,
                                rule.p, rule.f, rule.u)]
    /\ UNCHANGED <<cfg, wk, thr, accept_conn, server, conn, plan, par>>

ApplyStep ==
    /\ rule.kind = "block"
    /\ rule.seq = None
    /\ rule.top_ghost = None /\ rule.bottom_ghost = None
    /\ rule' = [rule EXCEPT !.seq =
                   step(rule.block, rule.p, rule.f, rule.u, rule.u)]
    /\ UNCHANGED <<cfg, wk, thr, accept_conn, server, conn, plan, par>>

\* one row with every pair of ghost rows; whole grids without ghost rows;
\* the 1 x 5 block
InitRule ==
    /\ InitWorkers(Config(1, 1, 1, 0, 0, 1, 0, NyVal))
    /\ plan = Plan0 /\ par = Par0
    /\ \/ \E p \in Levels, f \in Levels, seed \in 0..MaxSeed :
            \/ \E b \in GridsOf(1, LabNy),
                  t \in {None} \cup RowsOf(LabNy),
                  bt \in {None} \cup RowsOf(LabNy) :
                    rule = RuleInput(b, t, bt, p, f, seed)
            \/ \E sh \in GridShapes :
                 \E b \in GridsOf(sh[1], sh[2]) :
                    rule = RuleInput(b, None, None, p, f, seed)
       \/ rule = EmptyScene

(***************************************************************************)
(* A grid split over a chain of workers, one loop iteration of each:       *)
(* worker.py lines 107-141, every worker starting from the same step of    *)
(* the grid.                                                               *)
(***************************************************************************)
\* rows [i0, i1) of the grid, the block of the rank
BlockOf(grid, rank, N) ==
    SubSeq(grid, RangeLo(rank, N, Len(grid)) + 1, RangeHi(rank, N, Len(grid)))

\* a mutation: no row comes from the upper neighbour
TopGhostAbsent(rank, blocks) == None

\* lines 117-121: the row the upper neighbour sent, its bottom_row; there
\* is an up_sock when rank > 0 (line 80)
TopGhostOf(rank, blocks) ==
    IF rank > 0
    THEN RowOfBytes(RowBytes(BottomRowOf([grid |-> blocks[rank - 1]]), 0))
    ELSE None

\* lines 123-127: the row the lower neighbour sent, its top_row; there is
\* a down_sock when rank < num_procs - 1 (lines 74, 95)
BottomGhostOf(rank, N, blocks) ==
    IF rank < N - 1
    THEN RowOfBytes(RowBytes(TopRowOf([grid |-> blocks[rank + 1]]), 0))
    ELSE None

ChainInput(grid, N, p, f, seed) ==
    [kind |-> "chain", N |-> N, grid |-> grid, p |-> p, f |-> f,
     u |-> DrawsOf(seed, Len(grid), Len(grid[1])),
     blocks |-> [r \in 0..(N - 1) |-> BlockOf(grid, r, N)],
     tops |-> [r \in 0..(N - 1) |-> None],
     bottoms |-> [r \in 0..(N - 1) |-> None],
     new |-> [r \in 0..(N - 1) |-> None]]

\* the 4 x 4 grid of trees with cell (1, 2) burning, two workers, p = f = 0
FireScene ==
    ChainInput([i \in 1..4 |-> [j \in 1..4 |->
                   IF i = 2 /\ j = 3 THEN BURN ELSE TREE]], 2, 0, 0, 0)

ChainRanks == 0..(ChainNx - 1)

ExchangeAndUpdate(r) ==
    /\ rule.kind = "chain"
    /\ r \in DOMAIN rule.new
    /\ rule.new[r] = None
    /\ LET topGhost == TopGhostOf(r, rule.blocks)
           bottomGhost == BottomGhostOf(r, rule.N, rule.blocks)
           i0 == RangeLo(r, rule.N, Len(rule.grid))
           i1 == RangeHi(r, rule.N, Len(rule.grid))
       IN rule' = [rule EXCEPT
               !.tops[r] = topGhost,
               !.bottoms[r] = bottomGhost,
               !.new[r] = update_block(rule.blocks[r], topGhost, bottomGhost,
                              rule.p, rule.f, SubSeq(rule.u, i0 + 1, i1))]
    /\ UNCHANGED <<cfg, wk, thr, accept_conn, server, conn, plan, par>>

\* grids of 2..ChainNx rows of LabNy cells over 1..Nx workers, without
\* draws (p = f = 0) and with them; the 4 x 4 grid
InitChain ==
    /\ InitWorkers(Config(1, 1, 1, 0, 0, 1, 0, NyVal))
    /\ plan = Plan0 /\ par = Par0
    /\ \/ \E Nx \in 2..ChainNx :
            \E N \in 1..Nx, g \in GridsOf(Nx, LabNy), q \in {0, 1} :
                rule = ChainInput(g, N, q, q, q * MaxSeed)
       \/ rule = FireScene

(***************************************************************************)
(* The threaded variant: forest_fire_paralelo.py.  par holds the shared    *)
(* arrays grid and new_grid, the barrier, the main thread and the worker   *)
(* threads; rowVer[i] counts the copies into row i of grid and newVer[i]   *)
(* is one more than the step that last wrote row i of new_grid.            *)
(***************************************************************************)
\* lines 43-89: the new state of cell (i, j), rows outside 1..Nx skipped
ThreadCell(grid, i, j, Nx, Ny, p, f, draw) ==
    LET s == grid[i][j] IN
    IF s = BURN THEN EMPTY
    ELSE IF s = TREE
         THEN IF \E di \in {-1, 0, 1}, dj \in {-1, 0, 1} :
                    /\ i + di >= 1 /\ i + di <= Nx
                    /\ ~(di = 0 /\ dj = 0)
                    /\ j + dj >= 1 /\ j + dj <= Ny
                    /\ grid[i + di][j + dj] = BURN
              THEN BURN
              ELSE IF draw < f THEN BURN
              ELSE TREE
         ELSE IF draw < p THEN TREE ELSE EMPTY

\* a mutation: the barrier counts the worker threads only
BarrierPartiesThreadsOnly(nthreads) == nthreads

\* line 113: threading.Barrier(nthreads + 1)
BarrierParties(nthreads) == nthreads + 1

(***************************************************************************)
(* threading.Barrier.wait: a thread enters while the barrier is filling;   *)
(* the thread that completes the parties releases the others and passes;   *)
(* the others pass one by one while the barrier drains, and the last one   *)
(* out sets it to filling again.                                           *)
(***************************************************************************)
BarrierLast(b) == b.count + 1 = b.parties

BarrierEnter(b) ==
    IF BarrierLast(b)
    THEN [b EXCEPT !.state = IF b.count = 0 THEN "filling" ELSE "draining"]
    ELSE [b EXCEPT !.count = @ + 1]

BarrierExit(b) ==
    [b EXCEPT !.count = @ - 1,
              !.state = IF b.count = 1 THEN "filling" ELSE @]

Thread0 == [pc |-> "none", step |-> 0, i |-> 0, i0 |-> 0, i1 |-> 0]

ParConfig(Nx, nthreads, nsteps, p, f, seed) ==
    [kind |-> "threads", Nx |-> Nx, nthreads |-> nthreads,
     nsteps |-> nsteps, p |-> p, f |-> f, seed |-> seed,
     grid |-> InitBlock(seed, 1, 0, Nx),
     new_grid |-> InitBlock(seed, 1, 0, Nx),
     rowVer |-> [i \in 1..Nx |-> 0],
     newVer |-> [i \in 1..Nx |-> 0],
     writers |-> [i \in 1..Nx |-> {}],
     stale |-> FALSE, torn |-> FALSE,
     barrier |-> [parties |-> BarrierParties(nthreads), count |-> 0,
                  state |-> "filling"],
     main |-> [pc |-> "start", step |-> 0, i |-> 0],
     th |-> [t \in 0..(nthreads - 1) |-> Thread0]]

Threads == 0..(MaxThreads - 1)

\* lines 119-125: the main thread creates and starts the next worker thread
MainStart ==
    /\ par.kind = "threads"
    /\ par.main.pc = "start"
    /\ LET t == par.main.i
           rows_per == PyFloorDiv(par.Nx, par.nthreads)
           i0 == t * rows_per
           i1 == IF t = par.nthreads - 1 THEN par.Nx ELSE (t + 1) * rows_per
       IN par' = [par EXCEPT
               !.th[t] = [pc |-> "loop", step |-> 0, i |-> i0,
                          i0 |-> i0, i1 |-> i1],
               !.main.i = t + 1,
               !.main.pc = IF t + 1 = par.nthreads THEN "loop" ELSE "start"]
    /\ UNCHANGED <<cfg, wk, thr, accept_conn, server, conn, plan, rule>>

\* line 37: for step in range(self.nsteps)
ThreadLoop(t) ==
    /\ par.kind = "threads" /\ t \in DOMAIN par.th
    /\ par.th[t].pc = "loop"
    /\ par' = [par EXCEPT
            !.th[t].pc = IF par.th[t].step < par.nsteps
                         THEN "compute" ELSE "done",
            !.th[t].i = par.th[t].i0]
    /\ UNCHANGED <<cfg, wk, thr, accept_conn, server, conn, plan, rule>>

\* lines 40-89: the thread's next row, read from grid, written to new_grid
ThreadRow(t) ==
    /\ par.kind = "threads" /\ t \in DOMAIN par.th
    /\ par.th[t].pc = "compute"
    /\ par.th[t].i < par.th[t].i1
    /\ LET i == par.th[t].i + 1
           st == par.th[t].step
           read == {k \in {i - 1, i, i + 1} : k >= 1 /\ k <= par.Nx}
           row == [j \in 1..NyVal |->
                     ThreadCell(par.grid, i, j, par.Nx, NyVal, par.p, par.f,
                                Draw(par.seed, st + 1, i - 1, j))]
       IN par' = [par EXCEPT
               !.new_grid[i] = row,
               !.newVer[i] = st + 1,
               !.writers[i] = @ \cup {t},
               !.stale = @ \/ \E k \in read : par.rowVer[k] # st,
               !.th[t].i = i]
    /\ UNCHANGED <<cfg, wk, thr, accept_conn, server, conn, plan, rule>>

\* line 93: the first barrier.wait() of the step
ThreadWait1(t) ==
    /\ par.kind = "threads" /\ t \in DOMAIN par.th
    /\ par.th[t].pc = "compute"
    /\ par.th[t].i = par.th[t].i1
    /\ par.barrier.state = "filling"
    /\ par' = [par EXCEPT
            !.barrier = BarrierEnter(par.barrier),
            !.th[t].pc = IF BarrierLast(par.barrier) THEN "gap" ELSE "in1"]
    /\ UNCHANGED <<cfg, wk, thr, accept_conn, server, conn, plan, rule>>

ThreadPass1(t) ==
    /\ par.kind = "threads" /\ t \in DOMAIN par.th
    /\ par.th[t].pc = "in1"
    /\ par.barrier.state = "draining"
    /\ par' = [par EXCEPT !.barrier = BarrierExit(par.barrier),
                          !.th[t].pc = "gap"]
    /\ UNCHANGED <<cfg, wk, thr, accept_conn, server, conn, plan, rule>>

\* line 96: the second barrier.wait() of the step
ThreadWait2(t) ==
    /\ par.kind = "threads" /\ t \in DOMAIN par.th
    /\ par.th[t].pc = "gap"
    /\ par.barrier.state = "filling"
    /\ par' = [par EXCEPT
            !.barrier = BarrierEnter(par.barrier),
            !.th[t].pc = IF BarrierLast(par.barrier) THEN "loop" ELSE "in2",
            !.th[t].step = IF BarrierLast(par.barrier) THEN @ + 1 ELSE @]
    /\ UNCHANGED <<cfg, wk, thr, accept_conn, server, conn, plan, rule>>

ThreadPass2(t) ==
    /\ par.kind = "threads" /\ t \in DOMAIN par.th
    /\ par.th[t].pc = "in2"
    /\ par.barrier.state = "draining"
    /\ par' = [par EXCEPT !.barrier = BarrierExit(par.barrier),
                          !.th[t].pc = "loop",
                          !.th[t].step = @ + 1]
    /\ UNCHANGED <<cfg, wk, thr, accept_conn, server, conn, plan, rule>>

\* lines 131-132: the main loop's first barrier.wait(); or the loop ends
MainWait1 ==
    /\ par.kind = "threads"
    /\ par.main.pc = "loop"
    /\ IF par.main.step < par.nsteps
       THEN /\ par.barrier.state = "filling"
            /\ par' = [par EXCEPT
                    !.barrier = BarrierEnter(par.barrier),
                    !.main.i = 0,
                    !.main.pc = IF BarrierLast(par.barrier)
                                THEN "copy" ELSE "in1"]
       ELSE par' = [par EXCEPT !.main.pc = "join"]
    /\ UNCHANGED <<cfg, wk, thr, accept_conn, server, conn, plan, rule>>

MainPass1 ==
    /\ par.kind = "threads"
    /\ par.main.pc = "in1"
    /\ par.barrier.state = "draining"
    /\ par' = [par EXCEPT !.barrier = BarrierExit(par.barrier),
                          !.main.pc = "copy", !.main.i = 0]
    /\ UNCHANGED <<cfg, wk, thr, accept_conn, server, conn, plan, rule>>

\* line 133: grid[:, :] = new_grid, row after row
MainCopyRow ==
    /\ par.kind = "threads"
    /\ par.main.pc = "copy"
    /\ par.main.i < par.Nx
    /\ LET i == par.main.i + 1
       IN par' = [par EXCEPT
               !.grid[i] = par.new_grid[i],
               !.rowVer[i] = par.newVer[i],
               !.torn = @ \/ par.newVer[i] # par.main.step + 1,
               !.main.i = i]
    /\ UNCHANGED <<cfg, wk, thr, accept_conn, server, conn, plan, rule>>

\* line 134: the main loop's second barrier.wait()
MainWait2 ==
    /\ par.kind = "threads"
    /\ par.main.pc = "copy"
    /\ par.main.i = par.Nx
    /\ par.barrier.state = "filling"
    /\ par' = [par EXCEPT
            !.barrier = BarrierEnter(par.barrier),
            !.main.pc = IF BarrierLast(par.barrier) THEN "loop" ELSE "in2",
            !.main.step = IF BarrierLast(par.barrier) THEN @ + 1 ELSE @]
    /\ UNCHANGED <<cfg, wk, thr, accept_conn, server, conn, plan, rule>>

MainPass2 ==
    /\ par.kind = "threads"
    /\ par.main.pc = "in2"
    /\ par.barrier.state = "draining"
    /\ par' = [par EXCEPT !.barrier = BarrierExit(par.barrier),
                          !.main.pc = "loop",
                          !.main.step = @ + 1]
    /\ UNCHANGED <<cfg, wk, thr, accept_conn, server, conn, plan, rule>>

\* lines 137-138: th.join() for every thread
MainJoin ==
    /\ par.kind = "threads"
    /\ par.main.pc = "join"
    /\ \A t \in DOMAIN par.th : par.th[t].pc = "done"
    /\ par' = [par EXCEPT !.main.pc = "done"]
    /\ UNCHANGED <<cfg, wk, thr, accept_conn, server, conn, plan, rule>>

InitPar ==
    /\ InitWorkers(Config(1, 1, 1, 0, 0, 1, 0, NyVal))
    /\ plan = Plan0 /\ rule = Rule0
    /\ \E Nx \in 1..MaxNx, n \in 1..MaxThreads, ns \in 1..MaxSteps,
          p \in Probs, f \in Probs, seed \in 0..MaxSeed :
            par = ParConfig(Nx, n, ns, p, f, seed)

ParMain ==
    \/ MainStart
    \/ MainWait1
    \/ MainPass1
    \/ MainCopyRow
    \/ MainWait2
    \/ MainPass2
    \/ MainJoin

ParThread(t) ==
    \/ ThreadLoop(t)
    \/ ThreadRow(t)
    \/ ThreadWait1(t)
    \/ ThreadPass1(t)
    \/ ThreadWait2(t)
    \/ ThreadPass2(t)

NextPar == ParMain \/ \E t \in Threads : ParThread(t)

(***************************************************************************)
(* Specifications.                                                         *)
(***************************************************************************)
Main(r) ==
    \/ Initialize(r)
    \/ Listen(r)
    \/ ConnectOk(r)
    \/ ConnectRefused(r)
    \/ Retry(r)
    \/ WaitDown(r)
    \/ LoopTop(r)
    \/ SendChunk(r)
    \/ SendToClosed(r)
    \/ RecvChunk(r)
    \/ RecvClosed(r)
    \/ RecvReset(r)
    \/ Update(r)
    \/ Close(r)

Next == \E r \in Ranks : Main(r) \/ AcceptOnce(r)

NextFault == Next \/ \E r \in Ranks : Kill(r) \/ ConnectError(r)

NextPlan == PlanRank

NextRule == ApplyUpdateBlock \/ ApplyStep

NextChain == \E r \in ChainRanks : ExchangeAndUpdate(r)

\* the runs of the workers, for every configuration
Spec == Init /\ [][Next]_vars

\* the same with every process and thread scheduled again and again
Fairness ==
    \A r \in Ranks :
        /\ WF_vars(Main(r))
        /\ WF_vars(AcceptOnce(r))

SpecFair == Init /\ [][Next]_vars /\ Fairness

\* the runs with killed processes and failing connects, which do not
\* depend on the cells' values: one seed, p = f = 1
InitFault ==
    /\ plan = Plan0 /\ Idle
    /\ \E c \in AnyConfigs :
         c.p = 1 /\ c.f = 1 /\ c.seed = 0 /\ InitWorkers(c)

SpecFault == InitFault /\ [][NextFault]_vars

\* a channel direction that holds one cell less than a row
TightCap == NyVal - 1

\* the runs with such channels, next to those with channels of one row:
\* one seed, p = f = 1
InitTight ==
    /\ plan = Plan0 /\ Idle
    /\ \E c \in AnyConfigs :
         /\ c.p = 1 /\ c.f = 1 /\ c.seed = 0 /\ c.cap = NyVal
         /\ \E k \in {TightCap, NyVal} : InitWorkers([c EXCEPT !.cap = k])

SpecTight == InitTight /\ [][Next]_vars

\* the threaded variant, every thread scheduled again and again
SpecPar ==
    /\ InitPar /\ [][NextPar]_vars
    /\ WF_vars(ParMain) /\ \A t \in Threads : WF_vars(ParThread(t))

\* the partition planner alone
SpecPlan == InitPlan /\ [][NextPlan]_vars

\* the update rule alone
SpecRule == InitRule /\ [][NextRule]_vars

\* one step of a grid split over a chain
SpecChain == InitChain /\ [][NextChain]_vars


(***************************************************************************)
(* Definitions the properties use.                                         *)
(***************************************************************************)
ValidCfg == cfg.N > 0 /\ cfg.Nx >= cfg.N

RunningPcs ==
    {"loop", "up_send", "up_recv", "down_send", "down_recv", "update"}

\* the run of a single worker over the whole grid, after t steps
RECURSIVE RefGrid(_)
RefGrid(t) ==
    IF t = 0 THEN InitBlock(cfg.seed, cfg.d0, 0, cfg.Nx)
    ELSE update_block(RefGrid(t - 1), None, None, cfg.p, cfg.f,
                      BlockDraws(cfg.seed, t - 1, 0, cfg.Nx))

PlanDone == plan.N > 0 /\ Len(plan.ranges) = plan.N

(***************************************************************************)
(* C1: for Nx >= num_workers > 0 the ranges [i0, i1) of ranks              *)
(* 0..num_workers-1 are non-empty, pairwise disjoint, contiguous and       *)
(* ordered by rank, start at 0 and end at Nx, so that their union is       *)
(* [0, Nx); when Nx is not divisible the remainder goes to the highest     *)
(* rank alone (every other rank holds Nx \div num_workers rows).           *)
(***************************************************************************)
C1_PartitionCovers ==
    LET R == plan.ranges
        n == Len(R)
    IN /\ \A k \in 1..n :
            /\ R[k][1] < R[k][2]
            /\ k = 1 => R[k][1] = 0
            /\ k > 1 => R[k][1] = R[k - 1][2]
            /\ k < plan.N => R[k][2] - R[k][1] = plan.Nx \div plan.N
            /\ k = plan.N => R[k][2] = plan.Nx
       /\ \A a \in 1..n, b \in 1..n :
            a < b => {i \in 0..plan.Nx : R[a][1] <= i /\ i < R[a][2]}
                     \cap {i \in 0..plan.Nx : R[b][1] <= i /\ i < R[b][2]} = {}
       /\ PlanDone =>
            {i \in 0..plan.Nx : \E k \in 1..n : R[k][1] <= i /\ i < R[k][2]}
              = 0..(plan.Nx - 1)

C1_Witness ==
    /\ PlanDone
    /\ plan.N >= 3
    /\ plan.Nx % plan.N >= 2

(***************************************************************************)
(* C2: partition invariance.  With the same initial grid and the same draw *)
(* per (step, global cell), the block of every worker after t updates is   *)
(* the rows [i0, i1) of the grid a single worker computes in t steps, for  *)
(* every t the worker has reached.                                         *)
(***************************************************************************)
C2_PartitionInvariance ==
    ValidCfg =>
        \A r \in Procs :
            \A k \in 1..Len(wk[r].hist) :
                wk[r].hist[k] = SubSeq(RefGrid(k - 1), wk[r].i0 + 1, wk[r].i1)

\* fire has crossed a partition boundary through a ghost row, in a second step
C2_Witness ==
    /\ ValidCfg /\ cfg.N >= 2
    /\ \E r \in Procs :
        /\ wk[r].pc = "loop" /\ wk[r].step = 2
        /\ wk[r].topGhost # None
        /\ \E j \in 1..NyVal :
            /\ \E jj \in 1..NyVal :
                   jj - j \in {-1, 0, 1} /\ wk[r].topGhost[jj] = BURN
            /\ wk[r].hist[2][1][j] = TREE
            /\ wk[r].hist[3][1][j] = BURN
            /\ Draw(cfg.seed, 2, wk[r].i0, j) >= cfg.f
            /\ \A jj \in 1..NyVal : wk[r].hist[2][1][jj] # BURN
            /\ Len(wk[r].grid) > 1 =>
                   \A jj \in 1..NyVal : wk[r].hist[2][2][jj] # BURN

(***************************************************************************)
(* C3: ghost-row freshness.  When a worker is about to compute its k-th    *)
(* update (step = k-1 updates done), its top ghost row is the last row of  *)
(* the upper neighbour's block after exactly k-1 updates and was sent      *)
(* after exactly k-1 updates; likewise the bottom ghost row and the first  *)
(* row of the lower neighbour.                                             *)
(***************************************************************************)
C3_GhostFresh ==
    ValidCfg =>
        \A r \in Procs :
            wk[r].pc = "update" =>
                LET k == wk[r].step + 1
                IN /\ r > 0 =>
                        /\ Len(wk[r - 1].hist) >= k
                        /\ wk[r].topGhost =
                               wk[r - 1].hist[k][Len(wk[r - 1].hist[k])]
                        /\ wk[r].topTags = [j \in 1..NyVal |-> k - 1]
                   /\ r < cfg.N - 1 =>
                        /\ Len(wk[r + 1].hist) >= k
                        /\ wk[r].bottomGhost = wk[r + 1].hist[k][1]
                        /\ wk[r].bottomTags = [j \in 1..NyVal |-> k - 1]

\* a middle worker about to compute its second update while its upper
\* neighbour is already one update further and its rows have changed
C3_Witness ==
    /\ ValidCfg /\ cfg.N >= 3
    /\ wk[1].pc = "update" /\ wk[1].step = 1
    /\ wk[0].step = 2
    /\ wk[0].hist[3] # wk[0].hist[2]
    /\ wk[0].hist[2] # wk[0].hist[1]


\* worker r holds every channel it is to have
ChannelsReady(r) ==
    /\ r > 0 =>
         /\ wk[r].up_sock # NoSock
         /\ conn[wk[r].up_sock.id].cEnd # "none"
    /\ r < cfg.N - 1 =>
         /\ wk[r].down_sock # NoSock
         /\ thr[r] = "done"
         /\ wk[r].down_sock = accept_conn[r]

SetupDone(r) == wk[r].pc \in RunningPcs \cup {"close", "done"}

(***************************************************************************)
(* C4: connection setup is free of deadlock.  For num_workers >= 1, the    *)
(* workers started in any order and every process and accept thread        *)
(* scheduled again and again, refused connects being retried: eventually   *)
(* every worker holds its channels and has entered the Running phase.      *)
(***************************************************************************)
C4_SetupCompletes ==
    ValidCfg => <>(\A r \in Procs : SetupDone(r) /\ ChannelsReady(r))

\* three workers are all set up, after a refused connect to a neighbour
\* that was not listening yet
C4_Witness ==
    /\ ValidCfg /\ cfg.N = 3
    /\ \A r \in Procs : SetupDone(r) /\ ChannelsReady(r)
    /\ wk[1].lastErr = "refused"
    /\ wk[2].lastErr = "refused"

(***************************************************************************)
(* C5: a worker in the exchange phase (or beyond) holds all its channels:  *)
(* its connect to rank-1 has succeeded when rank > 0, and the accept       *)
(* thread has handed over the connection from rank+1 when                  *)
(* rank < num_workers-1.                                                   *)
(***************************************************************************)
C5_NoExchangeBeforeReady ==
    \A r \in Procs :
        SetupDone(r) => ChannelsReady(r)

\* a middle worker has begun its first exchange
C5_Witness ==
    /\ cfg.N = 3
    /\ wk[1].pc = "up_send" /\ wk[1].step = 0
    /\ ChannelsReady(1)

(***************************************************************************)
(* C6: the channels form the linear chain.  For a worker r that is set up: *)
(* rank 0 has no upper channel and the last rank no lower channel; the     *)
(* lower channel of r < num_workers-1 is the accepted end of the           *)
(* connection that rank r+1 made to base_port + r, of which the upper      *)
(* channel of r+1 is the other end; and the endpoint of r has received no  *)
(* other connection.                                                       *)
(***************************************************************************)
C6_LinearChain ==
    ValidCfg =>
        \A r \in Procs :
            /\ \A c \in Procs : conn[c].srv = r => c = r + 1
            /\ Len(server[r].queue)
                 + (IF accept_conn[r] # NoSock THEN 1 ELSE 0) <= 1
            /\ SetupDone(r) =>
                 /\ r = 0 => wk[r].up_sock = NoSock
                 /\ r = cfg.N - 1 => wk[r].down_sock = NoSock
                 /\ r > 0 =>
                      /\ wk[r].up_sock = [id |-> r, side |-> "c"]
                      /\ conn[r].srv = r - 1
                      /\ server[r - 1].port = BasePort + (r - 1)
                 /\ r < cfg.N - 1 =>
                      /\ wk[r].down_sock = [id |-> r + 1, side |-> "s"]
                      /\ conn[r + 1].srv = r
                      /\ wk[r + 1].up_sock = [id |-> r + 1, side |-> "c"]

\* three workers, all set up
C6_Witness ==
    /\ ValidCfg /\ cfg.N = 3
    /\ \A r \in Procs : wk[r].pc = "loop" /\ wk[r].step = 0

\* worker r has run all its steps and closed its sockets
WorkerDone(r) ==
    /\ wk[r].pc = "done"
    /\ wk[r].step = cfg.nsteps
    /\ Len(wk[r].hist) = cfg.nsteps + 1
    /\ server[r].state = "closed"
    /\ r > 0 => conn[r].cEnd = "closed"
    /\ r < cfg.N - 1 => conn[r + 1].sEnd = "closed"

(***************************************************************************)
(* C7: run termination.  With the same nsteps for all workers and buffers  *)
(* that hold a full row, the exchange never deadlocks: eventually every    *)
(* worker has completed exactly nsteps exchange+update cycles, has closed  *)
(* its channels and is Done.                                               *)
(***************************************************************************)
C7_RunTerminates ==
    ValidCfg => <>(\A r \in Procs : WorkerDone(r))

\* three workers are done after the full number of steps, with buffers of
\* exactly one row
C7_Witness ==
    /\ ValidCfg /\ cfg.N = 3 /\ cfg.nsteps = MaxSteps /\ cfg.cap = NyVal
    /\ \A r \in Procs : WorkerDone(r)


(***************************************************************************)
(* C8: a worker started with num_workers <= 0 or Nx < num_workers opens    *)
(* no endpoint, creates no channel and performs no exchange or update      *)
(* step.                                                                   *)
(***************************************************************************)
C8_InvalidConfigRejected ==
    ~ValidCfg =>
        \A r \in Procs :
            /\ server[r].state = "none"
            /\ conn[r].srv = -1
            /\ wk[r].pc \notin RunningPcs

(***************************************************************************)
(* C9: an outbound connect that fails for a reason other than "connection  *)
(* refused" is fatal: the worker has stopped, it does not retry.           *)
(***************************************************************************)
C9_OtherConnectErrorFatal ==
    \A r \in Procs : wk[r].lastErr = "other" => wk[r].pc = "failed"

\* worker r is in a receive that can get no more bytes
ShortAndClosed(r) ==
    /\ wk[r].pc \in {"up_recv", "down_recv"}
    /\ Len(wk[r].data) < NyVal
    /\ Inbound(conn, CurSock(wk[r])) = <<>>
    /\ PeerEnd(conn, CurSock(wk[r])) = "closed"

\* worker r holds a full, current ghost row for each channel it has
FullGhosts(r) ==
    /\ wk[r].up_sock # NoSock =>
         /\ Len(wk[r].topGhost) = NyVal
         /\ wk[r].topTags = [j \in 1..NyVal |-> wk[r].step]
    /\ wk[r].down_sock # NoSock =>
         /\ Len(wk[r].bottomGhost) = NyVal
         /\ wk[r].bottomTags = [j \in 1..NyVal |-> wk[r].step]

(***************************************************************************)
(* C10: a channel closed by the peer before a full row of Ny cells was     *)
(* received is fatal.  A worker about to update holds, for each channel it *)
(* has, a ghost row of exactly Ny cells sent in this step; a worker in a   *)
(* receive with less than Ny cells, nothing left to read and the peer's    *)
(* end closed can only fail, its block and step count unchanged; and a     *)
(* failed worker takes no further step.                                    *)
(***************************************************************************)
C10_ShortReadFatal ==
    /\ [](\A r \in Procs : wk[r].pc = "update" => FullGhosts(r))
    /\ [][\A r \in Procs :
            ShortAndClosed(r) =>
                \/ wk'[r] = wk[r]
                \/ /\ wk'[r].pc = "failed"
                   /\ wk'[r].err \in {"ConnectionError", "ConnectionResetError",
                                      "killed"}
                   /\ wk'[r].step = wk[r].step
                   /\ wk'[r].grid = wk[r].grid]_vars
    /\ [][\A r \in Procs : wk[r].pc = "failed" => wk'[r] = wk[r]]_vars

\* a worker has failed with the channel-closed error after part of a row
C10_Witness ==
    \E r \in Procs :
        /\ wk[r].pc = "failed"
        /\ wk[r].err = "ConnectionError"
        /\ Len(wk[r].data) > 0 /\ Len(wk[r].data) < NyVal
        /\ wk[r].step = 1

(***************************************************************************)
(* Definitions the properties of the update rule use.                      *)
(***************************************************************************)
\* update_block has been applied to the input
RuleDone == rule.kind = "block" /\ rule.new # None

\* the cell at row i, column j around the block: row 0 is the top ghost
\* row, row rows+1 the bottom ghost row; no cell elsewhere
HasCell(i, j) ==
    /\ j >= 1 /\ j <= Len(rule.block[1])
    /\ \/ i >= 1 /\ i <= Len(rule.block)
       \/ i = 0 /\ rule.top_ghost # None
       \/ i = Len(rule.block) + 1 /\ rule.bottom_ghost # None

CellAt(i, j) ==
    IF i = 0 THEN rule.top_ghost[j]
    ELSE IF i = Len(rule.block) + 1 THEN rule.bottom_ghost[j]
    ELSE rule.block[i][j]

\* a Moore neighbour of (i, j), in the block or in a ghost row, burns
NeighbourBurns(i, j) ==
    \E di \in {-1, 0, 1}, dj \in {-1, 0, 1} :
        /\ <<di, dj>> # <<0, 0>>
        /\ HasCell(i + di, j + dj)
        /\ CellAt(i + di, j + dj) = BURN

(***************************************************************************)
(* C11: every cell that is Burning when update_block is called is Empty in *)
(* the block it returns, whatever p, f, the draws, the neighbours and the  *)
(* ghost rows are; likewise in the grid the sequential step returns.       *)
(***************************************************************************)
C11_BurningBecomesEmpty ==
    RuleDone =>
        \A i \in 1..Len(rule.block) : \A j \in 1..Len(rule.block[i]) :
            rule.block[i][j] = BURN =>
                /\ rule.new[i][j] = EMPTY
                /\ rule.seq # None => rule.seq[i][j] = EMPTY

\* a burning row between a burning and a tree ghost row, growth and
\* ignition certain
C11_Witness ==
    /\ RuleDone
    /\ rule.p = Resolution /\ rule.f = Resolution
    /\ rule.block = <<[j \in 1..LabNy |-> BURN]>>
    /\ rule.top_ghost = [j \in 1..LabNy |-> BURN]
    /\ rule.bottom_ghost = [j \in 1..LabNy |-> TREE]
    /\ rule.new = <<[j \in 1..LabNy |-> EMPTY]>>

(***************************************************************************)
(* C13: with p = 0 and f = 0 a Tree cell with no Burning cell among its    *)
(* Moore neighbours, block cells and ghost rows, is Tree in the block      *)
(* update_block returns.                                                   *)
(***************************************************************************)
C13_TreeStaysTree ==
    (RuleDone /\ rule.p = 0 /\ rule.f = 0) =>
        \A i \in 1..Len(rule.block) : \A j \in 1..Len(rule.block[i]) :
            (rule.block[i][j] = TREE /\ ~NeighbourBurns(i, j))
                => rule.new[i][j] = TREE

\* one tree next to a burning ghost cell catches fire, the tree out of its
\* reach stays, its draw being 0
C13_Witness ==
    /\ RuleDone
    /\ rule.p = 0 /\ rule.f = 0
    /\ rule.block = <<<<TREE, EMPTY, TREE>>>>
    /\ rule.top_ghost = <<BURN, EMPTY, EMPTY>>
    /\ rule.bottom_ghost = <<TREE, TREE, TREE>>
    /\ rule.u[1][3] = 0
    /\ rule.new = <<<<BURN, EMPTY, TREE>>>>

(***************************************************************************)
(* C16: spontaneous ignition applies to Tree cells only.  With p = 0 an    *)
(* Empty cell is Empty after the step for every f and every neighbourhood; *)
(* an Empty cell is never Burning after one step; the 1 x 5 block of Empty *)
(* cells without neighbours, p = 0, f = 1, is all Empty after one step.    *)
(***************************************************************************)
C16_EmptyNeverIgnites ==
    RuleDone =>
        /\ \A i \in 1..Len(rule.block) : \A j \in 1..Len(rule.block[i]) :
             rule.block[i][j] = EMPTY =>
                /\ rule.new[i][j] # BURN
                /\ rule.p = 0 => rule.new[i][j] = EMPTY
        /\ [rule EXCEPT !.new = None, !.seq = None] = EmptyScene =>
             rule.new = <<[j \in 1..5 |-> EMPTY]>>

\* the 1 x 5 block has been stepped
C16_Witness ==
    /\ RuleDone
    /\ [rule EXCEPT !.new = None, !.seq = None] = EmptyScene
    /\ rule.f = Resolution /\ rule.p = 0
    /\ Len(rule.new[1]) = 5

(***************************************************************************)
(* C19: for the same grid, levels p and f and the same draw per cell, the  *)
(* sequential step returns the grid that update_block returns without      *)
(* ghost rows.                                                             *)
(***************************************************************************)
C19_StepIsUpdateBlock ==
    (RuleDone /\ rule.seq # None) => rule.seq = rule.new

\* both have been applied to a grid of three rows in which a tree catches
\* fire from a diagonal neighbour only, the draws deciding the other cells
C19_Witness ==
    /\ RuleDone /\ rule.seq # None
    /\ Len(rule.block) = 3 /\ Len(rule.block[1]) = 2
    /\ rule.p = 1 /\ rule.f = 1
    /\ rule.block = <<<<BURN, EMPTY>>, <<EMPTY, TREE>>, <<TREE, EMPTY>>>>
    /\ rule.u[2][2] >= rule.f
    /\ rule.seq[2][2] = BURN
    /\ rule.seq = rule.new

(***************************************************************************)
(* Definitions the properties of the chain use.                            *)
(***************************************************************************)
\* worker r of the chain has run its loop iteration
ChainDone(r) == rule.kind = "chain" /\ r \in DOMAIN rule.new /\ rule.new[r] # None

\* a Moore neighbour of cell (gi, j) inside the global grid burns
GlobalBurns(gi, j) ==
    \E di \in {-1, 0, 1}, dj \in {-1, 0, 1} :
        /\ <<di, dj>> # <<0, 0>>
        /\ gi + di >= 1 /\ gi + di <= Len(rule.grid)
        /\ j + dj >= 1 /\ j + dj <= Len(rule.grid[1])
        /\ rule.grid[gi + di][j + dj] = BURN

\* the 4 x 4 grid one step after cell (1, 2) burnt
FireSceneAfter ==
    [i \in 1..4 |-> [j \in 1..4 |->
        IF i = 2 /\ j = 3 THEN EMPTY
        ELSE IF i \in {1, 2, 3} /\ j \in {2, 3, 4} THEN BURN
        ELSE TREE]]

(***************************************************************************)
(* C12: fire spreads across partition boundaries.  In a grid split over a  *)
(* chain of workers a Tree cell is Burning after a worker's step whenever  *)
(* a Moore neighbour in the global grid burnt before the step, a neighbour *)
(* in the adjacent worker's boundary row included; with f = 0 it is        *)
(* Burning only then, so columns do not wrap around.  The 4 x 4 grid of    *)
(* trees over 2 workers with cell (1,2) burning, p = f = 0, has after one  *)
(* step (1,2) Empty, the eight cells around it Burning, all others Tree.   *)
(***************************************************************************)
C12_FireCrossesBoundary ==
    /\ \A r \in ChainRanks :
         ChainDone(r) =>
            \A i \in 1..Len(rule.blocks[r]) : \A j \in 1..Len(rule.grid[1]) :
                LET gi == RangeLo(r, rule.N, Len(rule.grid)) + i
                IN rule.grid[gi][j] = TREE =>
                     /\ GlobalBurns(gi, j) => rule.new[r][i][j] = BURN
                     /\ (rule.f = 0 /\ ~GlobalBurns(gi, j))
                            => rule.new[r][i][j] = TREE
    /\ ([rule EXCEPT !.new = FireScene.new, !.tops = FireScene.tops,
                     !.bottoms = FireScene.bottoms] = FireScene
        /\ ChainDone(0) /\ ChainDone(1))
          => rule.new[0] \o rule.new[1] = FireSceneAfter

\* both workers have stepped the 4 x 4 grid; row 2, of the lower worker,
\* burns through the ghost row
C12_Witness ==
    /\ ChainDone(0) /\ ChainDone(1)
    /\ rule.N = 2 /\ Len(rule.grid) = 4 /\ rule.p = 0 /\ rule.f = 0
    /\ rule.grid[2] = <<TREE, TREE, BURN, TREE>>
    /\ rule.tops[1] = <<TREE, TREE, BURN, TREE>>
    /\ rule.new[1] = << <<TREE, BURN, BURN, BURN>>, <<TREE, TREE, TREE, TREE>> >>
    /\ rule.new[0] = << <<TREE, BURN, BURN, BURN>>, <<TREE, BURN, EMPTY, BURN>> >>

(***************************************************************************)
(* C15: closed boundary.  Rank 0 passes an absent top ghost row and the    *)
(* last rank an absent bottom ghost row to the update, an absent ghost row *)
(* is a row of Empty cells, and a Tree cell on the outer edge of the grid  *)
(* (first or last row, first or last column) that is Burning after the     *)
(* step without its own draw igniting it has a burning Moore neighbour     *)
(* inside the grid: no position outside the grid ignites it, in either     *)
(* direction.                                                              *)
(***************************************************************************)
C15_ClosedBoundary ==
    \A r \in ChainRanks :
        ChainDone(r) =>
            /\ r = 0 => rule.tops[r] = None
            /\ r = rule.N - 1 => rule.bottoms[r] = None
            /\ r = 0 =>
                 PadTop(rule.tops[r], Len(rule.grid[1]))
                    = [j \in 1..Len(rule.grid[1]) |-> EMPTY]
            /\ r = rule.N - 1 =>
                 PadBottom(rule.bottoms[r], Len(rule.grid[1]))
                    = [j \in 1..Len(rule.grid[1]) |-> EMPTY]
            /\ \A i \in 1..Len(rule.blocks[r]) : \A j \in 1..Len(rule.grid[1]) :
                 LET gi == RangeLo(r, rule.N, Len(rule.grid)) + i
                 IN (/\ gi \in {1, Len(rule.grid)} \/ j \in {1, Len(rule.grid[1])}
                     /\ rule.grid[gi][j] = TREE
                     /\ rule.new[r][i][j] = BURN
                     /\ rule.u[gi][j] >= rule.f)
                        => GlobalBurns(gi, j)

\* trees in two corners with fire in the opposite corners of their rows
\* stay trees: first row of rank 0, last row of the last rank
C15_Witness ==
    /\ rule.kind = "chain" /\ rule.N = 2 /\ rule.p = 0 /\ rule.f = 0
    /\ rule.grid = << <<TREE, EMPTY, BURN>>, <<EMPTY, EMPTY, EMPTY>>,
                      <<BURN, EMPTY, TREE>> >>
    /\ ChainDone(0) /\ ChainDone(1)
    /\ rule.tops[0] = None /\ rule.bottoms[1] = None
    /\ rule.new[0] = << <<TREE, EMPTY, EMPTY>> >>
    /\ rule.new[1] = << <<EMPTY, EMPTY, EMPTY>>, <<EMPTY, EMPTY, TREE>> >>

\* every cell of the row is Empty, Tree or Burning
RowInDomain(row) == \A j \in 1..Len(row) : row[j] \in Cells

BlockInDomain(block) == \A i \in 1..Len(block) : RowInDomain(block[i])

(***************************************************************************)
(* C14: cell-domain invariant.  In every reachable state of a run every    *)
(* cell of every worker's block, of the boundary rows it has captured and  *)
(* of the ghost rows it has received is Empty, Tree or Burning, and so is  *)
(* every cell of every block update_block has returned.                    *)
(***************************************************************************)
C14_CellDomain ==
    \A r \in Procs :
        /\ BlockInDomain(wk[r].grid)
        /\ RowInDomain(wk[r].top_row) /\ RowInDomain(wk[r].bottom_row)
        /\ wk[r].topGhost # None => RowInDomain(wk[r].topGhost)
        /\ wk[r].bottomGhost # None => RowInDomain(wk[r].bottomGhost)
        /\ \A k \in 1..Len(wk[r].hist) : BlockInDomain(wk[r].hist[k])

\* a worker about to update a second time holds a ghost row with a burning
\* cell, which came over the channel, and a block with a tree and an
\* empty cell
C14_Witness ==
    \E r \in Procs :
        /\ wk[r].pc = "update" /\ wk[r].step = 1
        /\ wk[r].topGhost # None
        /\ \E j \in 1..NyVal : wk[r].topGhost[j] = BURN
        /\ \A v \in {EMPTY, TREE} :
             \E i \in 1..Len(wk[r].grid) : \E j \in 1..NyVal :
                wk[r].grid[i][j] = v

\* the phase of the life cycle a position belongs to, in their order
Phase(pc) ==
    IF pc = "start" THEN 1                                  \* Initializing
    ELSE IF pc \in {"listen", "connect", "sleep", "wait_down"} THEN 2
    ELSE IF pc \in RunningPcs THEN 3                        \* Running
    ELSE IF pc = "close" THEN 4                             \* Closing
    ELSE IF pc = "done" THEN 5                              \* Done
    ELSE 6                                                  \* failed

\* where worker r goes after its upper exchange, and after the capture
AfterUp(r) == IF r < cfg.N - 1 THEN "down_send" ELSE "update"
AfterCapture(r) == IF r > 0 THEN "up_send" ELSE AfterUp(r)

\* one step of worker r from record w to record v keeps the order of the
\* loop body
InOrder(r, w, v) ==
    /\ Phase(v.pc) \in {Phase(w.pc), Phase(w.pc) + 1}
    /\ Phase(v.pc) = 3 /\ Phase(w.pc) = 2 => v.pc = "loop" /\ v.step = 0
    /\ w.pc = "loop" =>
         IF w.step < cfg.nsteps
         THEN /\ v.pc = AfterCapture(r)
              /\ v.top_row = w.grid[1]
              /\ v.bottom_row = w.grid[Len(w.grid)]
         ELSE v.pc = "close"
    /\ w.pc = "up_send" => v.pc \in {"up_send", "up_recv"}
    /\ w.pc = "up_recv" => v.pc \in {"up_recv", AfterUp(r)}
    /\ w.pc = "down_send" => v.pc \in {"down_send", "down_recv"}
    /\ w.pc = "down_recv" => v.pc \in {"down_recv", "update"}
    /\ w.pc = "update" =>
         /\ v.pc = "loop"
         /\ v.step = w.step + 1
         /\ v.hist = Append(w.hist, v.grid)
    /\ w.pc # "update" =>
         /\ v.step = w.step
         /\ w.pc # "start" => v.grid = w.grid /\ v.hist = w.hist
    /\ w.pc = "close" => v.pc = "done"

(***************************************************************************)
(* C17: per-worker step ordering.  A worker passes Initializing,           *)
(* ConnectingNeighbors, Running, Closing, Done in this order, none left    *)
(* out; in Running each iteration captures the two boundary rows, does the *)
(* upper exchange (send, then receive), then the lower one, then the       *)
(* update, which alone changes the block and adds one to the step; the     *)
(* ghost rows an update uses were sent in the same step; the step count    *)
(* goes 0, 1 .. nsteps with one block per step, and Closing begins at      *)
(* nsteps.                                                                 *)
(***************************************************************************)
C17_StepOrdering ==
    /\ [][ValidCfg => \A r \in Procs :
             wk'[r] # wk[r] => InOrder(r, wk[r], wk'[r])]_vars
    /\ [](ValidCfg => \A r \in Procs :
             /\ wk[r].step <= cfg.nsteps
             /\ Phase(wk[r].pc) >= 2 => Len(wk[r].hist) = wk[r].step + 1
             /\ Phase(wk[r].pc) \in {4, 5} => wk[r].step = cfg.nsteps
             /\ wk[r].pc = "update" =>
                  /\ r > 0 => wk[r].topTags = [j \in 1..NyVal |-> wk[r].step]
                  /\ r < cfg.N - 1 =>
                       wk[r].bottomTags = [j \in 1..NyVal |-> wk[r].step])

\* a middle worker is done after MaxSteps steps, each with both exchanges
C17_Witness ==
    /\ ValidCfg /\ cfg.N = 3 /\ cfg.nsteps = MaxSteps
    /\ wk[1].pc = "done"
    /\ wk[1].step = MaxSteps
    /\ Len(wk[1].hist) = MaxSteps + 1
    /\ wk[1].topTags = [j \in 1..NyVal |-> MaxSteps - 1]
    /\ wk[1].bottomTags = [j \in 1..NyVal |-> MaxSteps - 1]

\* worker r is in a send that has bytes left and no room for one of them
BlockedInSend(r) ==
    /\ wk[r].pc \in {"up_send", "down_send"}
    /\ wk[r].out # <<>>
    /\ Len(Outbound(conn, CurSock(wk[r]))) >= cfg.cap
    /\ PeerEnd(conn, CurSock(wk[r])) = "open"
    /\ ~conn[CurSock(wk[r]).id].rst

\* workers r and r+1 are both blocked in send on the channel between them
SendDeadlock(r) ==
    /\ r \in Procs /\ r + 1 \in Procs
    /\ wk[r].pc = "down_send" /\ wk[r + 1].pc = "up_send"
    /\ wk[r].down_sock.id = r + 1
    /\ BlockedInSend(r) /\ BlockedInSend(r + 1)

(***************************************************************************)
(* C18: buffering hazard.  When a channel direction holds less than a row, *)
(* two adjacent workers that are both blocked in send on the channel       *)
(* between them stay so for ever: no step changes either of them or the    *)
(* channel; and with the send-then-receive order of both ends a run of two *)
(* or more workers never gets past its first exchange: no worker of the    *)
(* first pair completes a step, the run does not end.                      *)
(***************************************************************************)
C18_SendSendDeadlock ==
    /\ [][\A r \in Ranks :
            SendDeadlock(r) =>
                /\ wk'[r] = wk[r] /\ wk'[r + 1] = wk[r + 1]
                /\ conn'[r + 1] = conn[r + 1]]_vars
    /\ []((ValidCfg /\ cfg.N >= 2 /\ cfg.cap < NyVal) =>
             /\ wk[0].step = 0 /\ wk[1].step = 0
             /\ wk[0].pc # "update" /\ wk[1].pc # "update"
             /\ ~(\A r \in Procs : WorkerDone(r)))

\* three workers, each row one cell longer than a channel holds: every
\* worker is blocked in a send with a part of its row left
C18_Witness ==
    /\ ValidCfg /\ cfg.N = 3 /\ cfg.cap < NyVal
    /\ SendDeadlock(0)
    /\ BlockedInSend(2)
    /\ \A r \in Procs : wk[r].step = 0 /\ Len(wk[r].out) = NyVal - cfg.cap

\* the grid of the threaded run after t steps, computed by one call of
\* update_block per step
RECURSIVE ParRef(_)
ParRef(t) ==
    IF t = 0 THEN InitBlock(par.seed, 1, 0, par.Nx)
    ELSE update_block(ParRef(t - 1), None, None, par.p, par.f,
                      BlockDraws(par.seed, t - 1, 0, par.Nx))

\* the phases are apart in this state
PhasesApart ==
    /\ \A t \in DOMAIN par.th :
         /\ par.th[t].step <= par.nsteps
         /\ par.th[t].pc = "compute" =>
              /\ par.main.pc # "copy"
              /\ \A i \in 1..par.Nx : par.rowVer[i] = par.th[t].step
    /\ par.main.pc = "copy" =>
         \A t \in DOMAIN par.th :
            /\ par.th[t].pc \in {"in1", "gap", "in2"}
            /\ par.th[t].step = par.main.step
            /\ \A i \in 1..par.Nx : par.newVer[i] = par.main.step + 1
    /\ ~par.stale /\ ~par.torn
    /\ \A i \in 1..par.Nx : Cardinality(par.writers[i]) <= 1
    /\ \A t \in DOMAIN par.th, u \in DOMAIN par.th :
         (t < u /\ par.th[t].pc # "none" /\ par.th[u].pc # "none")
            => par.th[t].i1 <= par.th[u].i0
    /\ par.main.step <= par.nsteps
    /\ par.main.pc = "done" =>
         /\ par.main.step = par.nsteps
         /\ \A t \in DOMAIN par.th :
              par.th[t].pc = "done" /\ par.th[t].step = par.nsteps
         /\ \A i \in 1..par.Nx : par.rowVer[i] = par.nsteps
         /\ par.grid = ParRef(par.nsteps)

(***************************************************************************)
(* C20: in the threaded variant the two barrier waits of a step keep the   *)
(* phases apart under every interleaving.  While a worker thread computes  *)
(* step t the main thread is not copying and every row of grid holds the   *)
(* value committed after step t-1; while the main thread copies, every     *)
(* worker thread waits and every row of new_grid is the one of this step;  *)
(* no row of new_grid has two writers; and eventually the main loop and    *)
(* all threads have finished, after exactly nsteps steps, with the grid of *)
(* nsteps steps of the rule.                                               *)
(***************************************************************************)
C20_BarrierPhases ==
    /\ [](par.kind = "threads" => PhasesApart)
    /\ <>(par.kind = "threads" /\ par.main.pc = "done")

\* MaxThreads threads have run MaxSteps steps over MaxNx rows and the fire
\* has changed the grid
C20_Witness ==
    /\ par.kind = "threads"
    /\ par.main.pc = "done"
    /\ par.nthreads = MaxThreads /\ par.nsteps = MaxSteps /\ par.Nx = MaxNx
    /\ par.main.step = MaxSteps
    /\ \A t \in DOMAIN par.th : par.th[t].step = MaxSteps
    /\ \E i \in 1..par.Nx, j \in 1..NyVal : par.grid[i][j] = BURN
    /\ par.grid # InitBlock(par.seed, 1, 0, par.Nx)

\* the completed updates of workers a and b differ by at most one
StepsClose(a, b) ==
    /\ wk[a].step - wk[b].step <= 1
    /\ wk[b].step - wk[a].step <= 1

(***************************************************************************)
(* C21: bounded skew without a global barrier.  In every reachable state   *)
(* the numbers of completed updates of two row-adjacent workers differ by  *)
(* at most 1, and a worker that has finished the exchange of a step (it is *)
(* about to update) has neighbours that have completed at least as many    *)
(* updates as it has.                                                      *)
(***************************************************************************)
C21_BoundedSkew ==
    \A r \in Procs :
        /\ r + 1 \in Procs => StepsClose(r, r + 1)
        /\ (ValidCfg /\ wk[r].pc = "update") =>
             /\ r > 0 => wk[r - 1].step >= wk[r].step
             /\ r + 1 \in Procs => wk[r + 1].step >= wk[r].step

\* three workers at 2, 1 and 0 completed updates: the two ends of the
\* chain are two steps apart, each adjacent pair one step
C21_Witness ==
    /\ ValidCfg /\ cfg.N = 3
    /\ wk[0].step = 2 /\ wk[1].step = 1 /\ wk[2].step = 0
    /\ wk[2].pc \in RunningPcs

\* the rows worker record w has sent in full on its upper channel, and on
\* its lower channel
SendsDoneUp(w) ==
    w.step + (IF w.pc \in {"up_recv", "down_send", "down_recv", "update"}
              THEN 1 ELSE 0)

SendsDoneDown(w) ==
    w.step + (IF w.pc \in {"down_recv", "update"} THEN 1 ELSE 0)

\* worker r closes socket s, whose other end worker q holds: r has read
\* all of it, q has no send left on it, and what r sent stays readable
ClosesCleanly(s, sent) ==
    /\ Inbound(conn, s) = <<>>
    /\ sent = cfg.nsteps
    /\ Outbound(conn', s) = Outbound(conn, s)
    /\ ~conn'[s.id].rst

\* worker r has no failure and none in sight on its channels
NoChannelFailure(r) ==
    /\ wk[r].pc # "failed" /\ wk[r].err = ""
    /\ ~conn[r].rst
    /\ wk[r].pc \in {"up_send", "down_send"} =>
         PeerEnd(conn, CurSock(wk[r])) = "open"
    /\ (/\ wk[r].pc \in {"up_recv", "down_recv"}
        /\ PeerEnd(conn, CurSock(wk[r])) = "closed")
          => Len(wk[r].data) + Len(Inbound(conn, CurSock(wk[r]))) = NyVal

(***************************************************************************)
(* C22: clean shutdown.  In a run with a valid configuration (the same     *)
(* nsteps for all, no channel failing) a worker that closes a channel has  *)
(* read every row the neighbour sends on it, the neighbour has sent all    *)
(* its nsteps rows on it, and the rows the closing worker sent stay in the *)
(* channel for the neighbour; no connection is reset, no send meets a      *)
(* closed peer, a receive whose peer has closed has its full row waiting,  *)
(* and no worker fails with the channel-closed error or any other.         *)
(***************************************************************************)
C22_CleanShutdown ==
    /\ [][ValidCfg => \A r \in Procs :
             (wk[r].pc = "close" /\ wk'[r].pc = "done") =>
                /\ wk[r].step = cfg.nsteps
                /\ r > 0 =>
                     ClosesCleanly(wk[r].up_sock, SendsDoneDown(wk[r - 1]))
                /\ r < cfg.N - 1 =>
                     ClosesCleanly(wk[r].down_sock, SendsDoneUp(wk[r + 1]))]_vars
    /\ [](ValidCfg => \A r \in Procs : NoChannelFailure(r))

\* rank 0 is done and has closed while rank 1 has not yet read the last
\* row rank 0 sent: the row waits in the channel
C22_Witness ==
    /\ ValidCfg /\ cfg.N >= 2 /\ cfg.nsteps = MaxSteps
    /\ wk[0].pc = "done"
    /\ conn[1].sEnd = "closed"
    /\ wk[1].pc = "up_recv" /\ wk[1].step = MaxSteps - 1
    /\ wk[1].data = <<>>
    /\ Len(Inbound(conn, wk[1].up_sock)) = NyVal

====
